---- MODULE Spec2Model ----
(***************************************************************************)
(* Model of MiddleClickOverlay (tagstudio/qt/mixed/middle_click_overlay.py) *)
(* as a state machine driven by the Qt event loop: show_at, timer ticks,    *)
(* paint events, mouse releases, leave checks and close events.             *)
(*                                                                          *)
(* Time is counted in whole units of the clock (time.time()).  Durations    *)
(* are positive whole numbers of units, each far above the 1e-6 floor of    *)
(* max(1e-6, duration), so the floor never applies.  A progress value p in  *)
(* [0,1] is held as the integer p * PScale; with PScale the cube of the     *)
(* least common multiple of the durations every value the easing produces   *)
(* is exact.  Angles are whole multiples of pi / HalfTurn.                  *)
(***************************************************************************)
EXTENDS Integers, Sequences, FiniteSets, TLC

\* ------------------------------------------------------------------ bounds
NInst == 2      \* overlay instances that exist
MaxTime == 5    \* the clock runs from StartTime to MaxTime (SpecOne)
CoordMaxTime == 2   \* the clock runs from StartTime to CoordMaxTime (Spec)
FairMaxTime == 3    \* the clock runs from StartTime to FairMaxTime (FairOne)
MaxDur == 2     \* anim_in_duration, anim_out_duration range over 1..MaxDur
MaxOpts == 3    \* an overlay has 0..MaxOpts options
NEntries == 2   \* library entries (ThumbSpec)
NTags == 3      \* tag ids; the library holds all of them or all but the first
MaxLimit == 2   \* middle_click_limit ranges over 1..MaxLimit
MaxRecent == 2  \* get_recent_tags returns at most MaxRecent ids
MaxClicks == 1  \* middle clicks in one behaviour (ThumbSpec)
NThumbs == 2    \* ItemThumb widgets of one driver (BadgeSpec)
MaxDepth == 2   \* wrapped calls nested in one another (BadgeSpec)
DemoMaxTime == 4    \* the clock runs from StartTime to DemoMaxTime (DemoSpec)

Instances == 1..NInst
None == 0       \* Python's None for an instance reference

\* ----------------------------------------------------------- arithmetic
Min(a, b) == IF a <= b THEN a ELSE b
Max(a, b) == IF a >= b THEN a ELSE b
Cube(a) == a * a * a

RECURSIVE Gcd(_, _)
Gcd(a, b) == IF b = 0 THEN a ELSE Gcd(b, a % b)

RECURSIVE LcmUpTo(_)
LcmUpTo(n) == IF n <= 1 THEN 1 ELSE (LcmUpTo(n - 1) * n) \div Gcd(LcmUpTo(n - 1), n)

\* t in [0,1] is held as t * TScale, progress as progress * PScale
TScale == LcmUpTo(MaxDur)
PScale == Cube(TScale)

\* int(x) of Python for x = base + num / den, den > 0: truncation toward zero
TruncAdd(base, num, den) ==
    LET fl == num \div den
        ce == -((-num) \div den)
    IN  IF base + fl >= 0 THEN base + fl ELSE base + ce

\* ------------------------------------------------------------- geometry
\* parent.geometry(): the parent window on the screen
GeoX == 100
GeoY == 50
GeoW == 640
GeoH == 480

Pt(x, y) == [x |-> x, y |-> y]

\* self.mapFromGlobal(global_point) for an overlay laid over the parent
mapFromGlobal(g) == Pt(g.x - GeoX, g.y - GeoY)

\* 1000 * cos(k * pi / 24) for k = 0..12, the first quarter turn
QuarterCos == <<1000, 991, 966, 924, 866, 793, 707, 609, 500, 383, 259, 131, 0>>
QuarterTurn == Len(QuarterCos) - 1
HalfTurn == 2 * QuarterTurn
FullTurn == 2 * HalfTurn
TrigScale == QuarterCos[1]

\* math.cos, math.sin of an angle of a units (a any integer), times TrigScale
Cos(a) ==
    LET k == a % FullTurn
    IN  IF k <= QuarterTurn THEN QuarterCos[k + 1]
        ELSE IF k <= HalfTurn THEN -QuarterCos[HalfTurn - k + 1]
        ELSE IF k <= HalfTurn + QuarterTurn THEN -QuarterCos[k - HalfTurn + 1]
        ELSE QuarterCos[FullTurn - k + 1]
Sin(a) == Cos(a - QuarterTurn)

\* math.atan2(dy, dx) in angle units, on the directions the model uses
\* (the axes and the diagonals); atan2(0, 0) is 0
atan2(dy, dx) ==
    IF dy = 0 THEN (IF dx >= 0 THEN 0 ELSE HalfTurn)
    ELSE IF dx = 0 THEN (IF dy > 0 THEN QuarterTurn ELSE -QuarterTurn)
    ELSE IF dx > 0 THEN (IF dy > 0 THEN QuarterTurn \div 2 ELSE -(QuarterTurn \div 2))
    ELSE (IF dy > 0 THEN HalfTurn - QuarterTurn \div 2 ELSE -(HalfTurn - QuarterTurn \div 2))

\* QRect(x, y, w, h) and QRect.contains(p)
Rect(x, y, w, h) == [x |-> x, y |-> y, w |-> w, h |-> h]
contains(r, p) ==
    /\ r.x <= p.x /\ p.x <= r.x + r.w - 1
    /\ r.y <= p.y /\ p.y <= r.y + r.h - 1

\* ------------------------------------------------------------------ state
VARIABLES
    now,        \* time.time(), sampled by the handlers
    ov,         \* ov[i]: the fields of MiddleClickOverlay instance i
    active,     \* MiddleClickOverlay._active_instance
    last,       \* the handler that ran last and what it did (observation only)
    thumb,      \* an ItemThumb with the driver's selection and the library's tags
    badges,     \* the badge check boxes of the thumbs and driver.badge_update_lock
    demo        \* the fields of the MiddleClickDemo widget

vars == <<now, ov, active, last, thumb, badges, demo>>

\* QPoint / float fields that still hold None
NoPoint == Pt(-1, -1)
NoTime == -1

\* the clock starts at a positive time (seconds since the epoch)
StartTime == 1

\* MiddleClickOverlay.__init__ followed by the caller's assignment of the four
\* animation settings; options holds one callback id per option
NewOverlay(nopts, in_enabled, in_dur, out_enabled, out_dur) ==
    [ options           |-> [k \in 1..nopts |-> k],
      center            |-> NoPoint,
      center_global     |-> NoPoint,
      effects           |-> << >>,
      anim_timer        |-> FALSE,
      anim_in_duration  |-> in_dur,
      anim_out_duration |-> out_dur,
      anim_enabled      |-> in_enabled,
      anim_out_enabled  |-> out_enabled,
      closing           |-> FALSE,
      closing_start     |-> NoTime,
      hit_regions       |-> << >>,
      leave_timer       |-> FALSE,
      leave_distance    |-> 220,
      visible           |-> FALSE,     \* QWidget.isVisible()
      update_pending    |-> FALSE,     \* a paint event posted by update()
      invoked           |-> << >> ]    \* callbacks run since show_at (observation)

\* the program state the handlers transform
State == [ov |-> ov, active |-> active]

\* QWidget.update(): posts a paint event to a visible widget
update(o) == [o EXCEPT !.update_pending = o.visible]

\* mutant: closeEvent leaves the leave-check timer running
closeEvent_keeps_leave_timer(st, i) ==
    [ ov     |-> [st.ov EXCEPT ![i].effects = << >>,
                               ![i].hit_regions = << >>,
                               ![i].anim_timer = FALSE],
      active |-> IF st.active = i THEN None ELSE st.active ]

\* mutant: closeEvent clears the active reference whoever holds it
closeEvent_clears_always(st, i) ==
    [ ov     |-> [st.ov EXCEPT ![i].effects = << >>,
                               ![i].hit_regions = << >>,
                               ![i].anim_timer = FALSE,
                               ![i].leave_timer = FALSE],
      active |-> None ]

\* ----------------------------------------------------------- closeEvent
closeEvent(st, i) ==
    [ ov     |-> [st.ov EXCEPT ![i].effects = << >>,
                               ![i].hit_regions = << >>,
                               ![i].anim_timer = FALSE,
                               ![i].leave_timer = FALSE],
      active |-> IF st.active = i THEN None ELSE st.active ]

\* QWidget.close(): delivers the close event, which closeEvent accepts, then
\* hides the widget; paint events posted for it are dropped
close(st, i) ==
    LET s1 == closeEvent(st, i)
    IN  [s1 EXCEPT !.ov[i].visible = FALSE, !.ov[i].update_pending = FALSE]

\* -------------------------------------------------------------- show_at
\* mutant: the options are spread over the whole circle
AnglesFor_full_circle(count, baseline) ==
    IF count = 1 THEN << baseline >>
    ELSE [k \in 1..count |->
            baseline - HalfTurn + (FullTurn * (k - 1)) \div (count - 1)]

\* lines 85-93: count is max(1, len(options)), sector is pi
AnglesFor(count, baseline) ==
    IF count = 1 THEN << baseline >>
    ELSE [k \in 1..count |->
            baseline - HalfTurn \div 2 + (HalfTurn * (k - 1)) \div (count - 1)]

\* lines 99-109; text stands for the option's label, opt[0]
NewEffect(c, angle, t, text) ==
    [ center |-> c, angle |-> angle, text |-> text, start |-> t, progress |-> 0,
      radius |-> 18, target_w |-> 100, target_h |-> 36 ]

\* mutant: show_at leaves every new effect at progress 0.0
ShownProgress_zero(anim_enabled) == 0

\* lines 105 and 112-116: the progress an effect has when show_at returns
ShownProgress(anim_enabled) == IF anim_enabled THEN 0 ELSE PScale

\* mutant: show_at leaves the active overlay alone
PreemptNobody(st, i) == st

\* lines 64-71: close the overlay that is active, unless it is this one
PreemptActive(st, i) ==
    IF st.active # None /\ st.active # i THEN close(st, st.active) ELSE st

show_at(st, i, global_point, t) ==
    LET s1 == PreemptActive(st, i)
        o == s1.ov[i]
        local == mapFromGlobal(global_point)
        count == Max(1, Len(o.options))
        baseline == atan2(GeoH \div 2 - local.y, GeoW \div 2 - local.x)
        angles == AnglesFor(count, baseline)
        fresh == [k \in 1..Min(Len(o.options), Len(angles)) |->
                    NewEffect(local, angles[k], t, o.options[k])]
        effs == [k \in 1..Len(fresh) |->
                    [fresh[k] EXCEPT !.progress = ShownProgress(o.anim_enabled)]]
        o2 == [o EXCEPT !.center = local,
                        !.center_global = global_point,
                        !.effects = effs,
                        !.anim_timer = IF o.anim_enabled THEN TRUE ELSE @,
                        !.leave_timer = TRUE,
                        !.visible = TRUE]
    IN  [ ov |-> [s1.ov EXCEPT ![i] = update(o2)], active |-> i ]

\* mutant: only the exit-animation setting decides whether to animate
start_close_out_only(st, i, t) ==
    LET o == st.ov[i]
    IN  IF o.closing THEN st
        ELSE IF ~o.anim_out_enabled THEN close(st, i)
        ELSE [st EXCEPT !.ov[i].closing = TRUE,
                        !.ov[i].closing_start = t,
                        !.ov[i].anim_timer = TRUE]

\* mutant: a close request on a closing overlay starts the exit anew
start_close_restarts(st, i, t) ==
    LET o == st.ov[i]
    IN  IF ~o.anim_out_enabled \/ ~o.anim_enabled THEN close(st, i)
        ELSE [st EXCEPT !.ov[i].closing = TRUE,
                        !.ov[i].closing_start = t,
                        !.ov[i].anim_timer = TRUE]

\* mutant: every close request plays the exit animation
start_close_always_animates(st, i, t) ==
    LET o == st.ov[i]
    IN  IF o.closing THEN st
        ELSE [st EXCEPT !.ov[i].closing = TRUE,
                        !.ov[i].closing_start = t,
                        !.ov[i].anim_timer = TRUE]

\* --------------------------------------------------------- _start_close
start_close(st, i, t) ==
    LET o == st.ov[i]
    IN  IF o.closing THEN st
        ELSE IF ~o.anim_out_enabled \/ ~o.anim_enabled THEN close(st, i)
        ELSE [st EXCEPT !.ov[i].closing = TRUE,
                        !.ov[i].closing_start = t,
                        !.ov[i].anim_timer = TRUE]

\* mutant: the tick never stops the timer
on_anim_tick_keeps_running(st, i) == [st EXCEPT !.ov[i] = update(@)]

\* mutant: the tick forgets self.update()
on_anim_tick_no_update(st, i) ==
    IF st.ov[i].effects = << >>
    THEN [st EXCEPT !.ov[i].anim_timer = FALSE]
    ELSE st

\* -------------------------------------------------------- _on_anim_tick
on_anim_tick(st, i) ==
    IF st.ov[i].effects = << >>
    THEN [st EXCEPT !.ov[i].anim_timer = FALSE]
    ELSE [st EXCEPT !.ov[i] = update(@)]

\* ----------------------------------------------------------- paintEvent
\* mutant: t is not capped at 1.0
TimeFraction_unclamped(elapsed, duration) == elapsed * (TScale \div duration)

\* t = min(1.0, elapsed / max(1e-6, duration)), times TScale
TimeFraction(elapsed, duration) == Min(TScale, elapsed * (TScale \div duration))

\* mutant: prog = pow(1 - t, 3)
EaseIn_inverted(t) == Cube(TScale - t)

\* prog = 1 - pow(1 - t, 3)
EaseIn(t) == PScale - Cube(TScale - t)

\* prog = pow(max(0.0, 1.0 - t_out), 3)
EaseOut(t_out) == Cube(Max(0, TScale - t_out))

\* self._closing_start or now
ClosingStartOr(o, t) ==
    IF o.closing_start = NoTime \/ o.closing_start = 0 THEN t ELSE o.closing_start

\* the progress paintEvent gives effect e of overlay o at time t
PaintProgress(o, e, t) ==
    IF o.closing
    THEN IF ~o.anim_out_enabled THEN 0
         ELSE EaseOut(TimeFraction(t - ClosingStartOr(o, t), o.anim_out_duration))
    ELSE IF o.anim_enabled
         THEN EaseIn(TimeFraction(t - e.start, o.anim_in_duration))
         ELSE PScale

\* whether effect e sets still_running in the paint at time t
StillRunning(o, e, t) ==
    IF o.closing
    THEN /\ o.anim_out_enabled
         /\ TimeFraction(t - ClosingStartOr(o, t), o.anim_out_duration) < TScale
    ELSE o.anim_enabled /\ PaintProgress(o, e, t) < PScale

\* the rectangle drawn, and recorded for hit-testing, for effect e at progress prog
EffectRect(e, prog) ==
    LET rw == GeoW
        rh == GeoH
        base_dist == Min(Max(80, Min(rw, rh) \div 4), 140)
        cx == TruncAdd(e.center.x, Cos(e.angle) * base_dist * prog, TrigScale * PScale)
        cy == TruncAdd(e.center.y, Sin(e.angle) * base_dist * prog, TrigScale * PScale)
        w == (e.target_w * (6 * PScale + 4 * prog)) \div (10 * PScale)
        h == (e.target_h * (6 * PScale + 4 * prog)) \div (10 * PScale)
    IN  Rect(cx - w \div 2, cy - h \div 2, w, h)

paintEvent(st, i, t) ==
    LET o == st.ov[i]
        n == Len(o.effects)
        effs == [k \in 1..n |->
                    [o.effects[k] EXCEPT !.progress = PaintProgress(o, o.effects[k], t)]]
        regions == [k \in 1..n |->
                    [rect |-> EffectRect(effs[k], effs[k].progress), idx |-> k - 1]]
        still_running == \E k \in 1..n : StillRunning(o, o.effects[k], t)
        painted == [st EXCEPT !.ov[i].effects = effs,
                              !.ov[i].hit_regions = regions,
                              !.ov[i].update_pending = FALSE]
    IN  IF o.center = NoPoint THEN [st EXCEPT !.ov[i].update_pending = FALSE]
        ELSE IF ~still_running /\ o.anim_timer
        THEN LET stopped == [painted EXCEPT !.ov[i].anim_timer = FALSE]
             IN  IF o.closing THEN close(stopped, i) ELSE stopped
        ELSE painted

\* ---------------------------------------------------- mouseReleaseEvent
\* the positions in _hit_regions whose rectangle contains p and whose idx is
\* a valid option index
Hits(o, p) ==
    { k \in 1..Len(o.hit_regions) :
        /\ contains(o.hit_regions[k].rect, p)
        /\ 0 <= o.hit_regions[k].idx
        /\ o.hit_regions[k].idx < Len(o.options) }

\* the entry the for loop stops at: the first one in list order
FirstHit(o, p) == CHOOSE k \in Hits(o, p) : \A m \in Hits(o, p) : k <= m

\* the option index whose callback a left release at p runs; -1 when none
ClickedIdx(o, p) == IF Hits(o, p) = {} THEN -1 ELSE o.hit_regions[FirstHit(o, p)].idx

\* mutant: the overlay stays open after the callback
AfterCallback_stays_open(st, i, t) == st

\* mutant: the overlay animates out after the callback
AfterCallback_animated(st, i, t) == start_close(st, i, t)

\* what the handler does once the clicked option's callback has returned
AfterCallback(st, i, t) == close(st, i)

\* mutant: the handler calls cb() outside any try statement
Escapes_uncaught(raises) == raises

\* lines 152-155, try: cb() except Exception: ...: whether an exception the
\* callback raises leaves the try statement
Escapes(raises) == FALSE

\* mutant: every button is handled as the left one
LeftButton_any(button) == TRUE

\* lines 137-138: event.button() is Qt.MouseButton.LeftButton
LeftButton(button) == button = "left"

\* raises: whether the clicked option's callback raises an Exception; a release
\* of another button goes to QWidget.mouseReleaseEvent, which ignores it
mouseReleaseEvent(st, i, button, p, t, raises) ==
    LET o == st.ov[i]
        idx == ClickedIdx(o, p)
        called == [st EXCEPT !.ov[i].invoked = Append(@, o.options[idx + 1])]
    IN  IF ~LeftButton(button) THEN st
        ELSE IF idx >= 0
        THEN IF Escapes(raises) THEN called ELSE AfterCallback(called, i, t)
        ELSE start_close(st, i, t)

\* ------------------------------------------------------ _on_leave_check
\* mutant: dist >= self._leave_distance
TooFar_inclusive(dx, dy, leave_distance) == dx * dx + dy * dy >= leave_distance * leave_distance

\* dist > self._leave_distance, with dist = (dx * dx + dy * dy) ** 0.5
TooFar(dx, dy, leave_distance) == dx * dx + dy * dy > leave_distance * leave_distance

on_leave_check(st, i, cur, t) ==
    LET o == st.ov[i]
        dx == cur.x - o.center_global.x
        dy == cur.y - o.center_global.y
    IN  IF o.center_global = NoPoint THEN st
        ELSE IF TooFar(dx, dy, o.leave_distance) THEN start_close(st, i, t)
        ELSE st

\* ------------------------------------------------------------ the inputs
\* where the host shows an overlay: the middle of the parent window, and a
\* point near the middle of its top edge
ShowPoints == { Pt(GeoX + GeoW \div 2, GeoY + GeoH \div 2), Pt(GeoX + GeoW \div 2, GeoY + 10) }

\* where the left button is released, relative to the overlay's center: the
\* center, the places the options settle at, and places with no option
ReleaseOffsets == { Pt(0, 0), Pt(120, 0), Pt(-120, 0), Pt(0, 120), Pt(0, -120), Pt(-120, -120) }

\* QCursor.pos() at a leave check, relative to the click point: distances
\* 0, 219, 220, 221, again 220 (132-176-220 is a right triangle), and 220.6
CursorOffsets == { Pt(0, 0), Pt(219, 0), Pt(220, 0), Pt(221, 0), Pt(132, 176), Pt(156, 156) }

\* the first overlay is shown, clicked and left at every one of these places;
\* the further overlays, which are there to displace and be displaced, are
\* shown in the middle of the window, clicked at the center and at a place
\* with no option, and left at distances 0 and 221
ShowPointsFor(i) ==
    IF i = 1 THEN ShowPoints ELSE { Pt(GeoX + GeoW \div 2, GeoY + GeoH \div 2) }
ReleaseOffsetsFor(i) == IF i = 1 THEN ReleaseOffsets ELSE { Pt(0, 0), Pt(-120, -120) }
CursorOffsetsFor(i) == IF i = 1 THEN CursorOffsets ELSE { Pt(0, 0), Pt(221, 0) }

Settings ==
    [ in_enabled : BOOLEAN, out_enabled : BOOLEAN, in_dur : 1..MaxDur, out_dur : 1..MaxDur ]

\* what `last` records of a handler run on instance i with input observation arg
Observed(op, i, arg, before, after) ==
    [ op |-> op, inst |-> i,
      \* release: the option index the point landed on (-1: on none)
      arg |-> arg,
      \* the option whose callback the handler ran, 0 when it ran none
      cb |-> IF Len(after.ov[i].invoked) > Len(before.ov[i].invoked)
             THEN after.ov[i].invoked[Len(after.ov[i].invoked)] ELSE 0,
      \* the other instance show_at closed, None when there was none
      pre |-> IF op = "show" /\ before.active # i THEN before.active ELSE None,
      \* whether the callback raised, and whether the exception left the handler
      raised |-> FALSE, escaped |-> FALSE ]

\* ----------------------------------------------------------- the actions
Becomes(op, i, arg, after) ==
    /\ ov' = after.ov
    /\ active' = after.active
    /\ last' = Observed(op, i, arg, State, after)
    /\ UNCHANGED <<now, thumb, badges, demo>>

\* the host calls show_at; the callback log starts anew with the new lifetime
ShowAt(i) ==
    /\ i \in Instances
    /\ \E g \in ShowPointsFor(i) :
        Becomes("show", i, 0, [show_at(State, i, g, now) EXCEPT !.ov[i].invoked = << >>])

\* anim_timer.timeout
Tick(i) ==
    /\ ov[i].anim_timer
    /\ Becomes("tick", i, 0, on_anim_tick(State, i))

\* a paint event: the one update() posted, or one the window system asks for
Paint(i) ==
    /\ ov[i].visible
    /\ Becomes("paint", i, 0, paintEvent(State, i, now))

\* a left-button release over the shown overlay
Release(i) ==
    /\ ov[i].visible
    /\ \E d \in ReleaseOffsetsFor(i) :
        LET p == Pt(ov[i].center.x + d.x, ov[i].center.y + d.y)
            idx == ClickedIdx(ov[i], p)
        IN  \E raises \in IF idx >= 0 THEN BOOLEAN ELSE {FALSE} :
                LET after == mouseReleaseEvent(State, i, "left", p, now, raises)
                IN  /\ ov' = after.ov
                    /\ active' = after.active
                    /\ last' = [Observed("release", i, idx, State, after)
                                    EXCEPT !.raised = raises, !.escaped = Escapes(raises)]
                    /\ UNCHANGED <<now, thumb, badges, demo>>

\* a release of the right or the middle button over the shown overlay: on the
\* corner of the first painted option if there is one, else on the center
ReleaseOther(i) ==
    /\ ov[i].visible
    /\ \E button \in {"right", "middle"} :
        LET hr == ov[i].hit_regions
            p == IF hr = << >> THEN ov[i].center ELSE Pt(hr[1].rect.x, hr[1].rect.y)
        IN  Becomes("other", i, ClickedIdx(ov[i], p),
                    mouseReleaseEvent(State, i, button, p, now, FALSE))

\* _leave_timer.timeout
LeaveCheck(i) ==
    /\ ov[i].leave_timer
    /\ \E d \in CursorOffsetsFor(i) :
        LET cur == Pt(ov[i].center_global.x + d.x, ov[i].center_global.y + d.y)
        IN  Becomes("leave", i, 0, on_leave_check(State, i, cur, now))

\* somebody else calls close() on the overlay
Close(i) ==
    /\ i \in Instances
    /\ Becomes("close", i, 0, close(State, i))

\* the clock moves on
Advance(until) ==
    /\ now < until
    /\ now' = now + 1
    /\ last' = [op |-> "advance", inst |-> None, arg |-> 0, cb |-> 0, pre |-> None,
                 raised |-> FALSE, escaped |-> FALSE]
    /\ UNCHANGED <<ov, active, thumb, badges, demo>>

\* ------------------------------------------------------------ ItemThumb
\* tagstudio/qt/mixed/item_thumb.py: the thumbnail widget whose middle click
\* builds the overlay's options.  driver.selected, a list without repeats, is
\* held as a set; the library is held as the tags that exist and the tags of
\* each entry.
Entries == 1..NEntries
Tags == 1..NTags

\* nothing opened, nothing applied
NoOpen == [limit |-> 0, apply |-> FALSE, item_id |-> 0, selected |-> {}]
NoApplied == [tag |-> 0, entries |-> {}]

\* an ItemThumb showing entry item, over a library holding lib_tags
NewThumb(item, lib_tags, entry_tags) ==
    [ item_id  |-> item,            \* self.item_id
      selected |-> {},              \* self.driver.selected
      lib_tags |-> lib_tags,        \* the ids lib.get_tag finds
      tags     |-> entry_tags,      \* the tags of each entry in the library
      options  |-> << >>,           \* the options of self._middle_click_overlay
      opened   |-> NoOpen,          \* what the last middle click was given (observation)
      applied  |-> NoApplied,       \* what the last callback added, and where (observation)
      handled  |-> FALSE,           \* what eventFilter returned for the last middle press
      clicks   |-> 0 ]              \* middle presses on thumb_button so far

\* self.lib.get_tag(tid) is truthy
get_tag(th, tid) == tid \in th.lib_tags

\* lines 576-595
apply_to_selected(cfg_apply, cfg_ctrl, cfg_shift, have_ctrl, have_shift) ==
    cfg_apply /\ ((cfg_ctrl /\ have_ctrl) \/ (cfg_shift /\ have_shift))

\* lines 621-631: the tags of the clicked entry, fetched unless apply_to_selected
existing_tag_ids(th, apply) == IF apply THEN {} ELSE th.tags[th.item_id]

\* mutant: tags the clicked entry already has are offered again
Hidden_never(tid, apply, existing) == FALSE

\* `not apply_to_selected and t.id in existing_tag_ids` (lines 642, 662)
Hidden(tid, apply, existing) == ~apply /\ tid \in existing

\* an element (tid, t) of tag_objs; recent notes which loop appended it
TagObj(tid, recent) == [tid |-> tid, recent |-> recent]

\* the set seen, which holds the ids of tag_objs
Seen(acc) == { acc[k].tid : k \in 1..Len(acc) }

\* lines 633-645: the loop over recent_tag_ids; acc is tag_objs so far
RECURSIVE RecentTagObjs(_, _, _, _, _)
RecentTagObjs(th, recent, apply, existing, acc) ==
    IF recent = << >> THEN acc
    ELSE LET tid == Head(recent)
             skip == \/ tid \in Seen(acc)
                     \/ ~get_tag(th, tid)
                     \/ Hidden(tid, apply, existing)
         IN  RecentTagObjs(th, Tail(recent), apply, existing,
                           IF skip THEN acc ELSE Append(acc, TagObj(tid, TRUE)))

\* a set of ids as the list in ascending order
RECURSIVE Ascending(_)
Ascending(S) ==
    IF S = {} THEN << >>
    ELSE LET m == CHOOSE x \in S : \A y \in S : x <= y
         IN  << m >> \o Ascending(S \ {m})

\* self.lib.search_tags(None, limit=n)[0]: the library's tags, at most n
search_tags(th, n) ==
    SubSeq(Ascending(th.lib_tags), 1, Min(n, Cardinality(th.lib_tags)))

\* lines 655-665: the loop over the search result
RECURSIVE FallbackTagObjs(_, _, _, _, _)
FallbackTagObjs(direct, apply, existing, limit, acc) ==
    IF direct = << >> \/ Len(acc) >= limit THEN acc
    ELSE LET tid == Head(direct)
             skip == tid \in Seen(acc) \/ Hidden(tid, apply, existing)
         IN  FallbackTagObjs(Tail(direct), apply, existing, limit,
                             IF skip THEN acc ELSE Append(acc, TagObj(tid, FALSE)))

\* lines 620-667
tag_objs(th, recent, apply, limit) ==
    LET existing == existing_tag_ids(th, apply)
        first == RecentTagObjs(th, recent, apply, existing, << >>)
    IN  IF Len(first) < limit
        THEN FallbackTagObjs(search_tags(th, limit * 2), apply, existing, limit, first)
        ELSE first

\* lines 670-686: one option per tag of tag_objs[:limit]; an option for the
\* selection carries its own copy of the targets, an option for the clicked
\* entry carries the tag id only
overlay_opts(th, objs, apply, limit) ==
    [ k \in 1..Min(limit, Len(objs)) |->
        [ tag |-> objs[k].tid, recent |-> objs[k].recent, multi |-> apply,
          targets |-> IF apply THEN th.selected ELSE {} ] ]

\* selected_after: driver.selected once toggle_item_selection has run
\* mutant: the item is selected before the enabled setting is looked at
on_middle_click_selects_first(th, enabled, selected_after, apply, limit, recent) ==
    LET t1 == [th EXCEPT !.selected = selected_after, !.clicks = @ + 1]
    IN  IF ~enabled THEN [t1 EXCEPT !.handled = FALSE]
        ELSE LET opts == overlay_opts(t1, tag_objs(t1, recent, apply, limit), apply, limit)
             IN  [t1 EXCEPT !.options = opts,
                            !.opened = [limit |-> limit, apply |-> apply,
                                        item_id |-> t1.item_id, selected |-> t1.selected],
                            !.applied = NoApplied,
                            !.handled = TRUE]

\* handled: the value returned, False at line 564 and True at line 729
on_middle_click(th, enabled, selected_after, apply, limit, recent) ==
    IF ~enabled THEN [th EXCEPT !.handled = FALSE, !.clicks = @ + 1]
    ELSE LET t1 == [th EXCEPT !.selected = selected_after]
             opts == overlay_opts(t1, tag_objs(t1, recent, apply, limit), apply, limit)
         IN  [t1 EXCEPT !.options = opts,
                        !.opened = [limit |-> limit, apply |-> apply,
                                    item_id |-> t1.item_id, selected |-> t1.selected],
                        !.applied = NoApplied,
                        !.handled = TRUE,
                        !.clicks = @ + 1]

\* a MouseButtonPress of the middle button on thumb_button: eventFilter
\* returns bool(handled)
eventFilter(th, enabled, selected_after, apply, limit, recent) ==
    on_middle_click(th, enabled, selected_after, apply, limit, recent)

\* _add_tag_and_record: adds the tag to the entry the thumb shows now
add_tag_and_record(th, tag_id) ==
    [th EXCEPT !.tags[th.item_id] = @ \cup {tag_id},
               !.applied = [tag |-> tag_id, entries |-> {th.item_id}]]

\* _add_tag_and_record_multi
add_tag_and_record_multi(th, tag_id, targets) ==
    IF targets = {} THEN [th EXCEPT !.applied = [tag |-> tag_id, entries |-> {}]]
    ELSE [th EXCEPT !.tags = [e \in Entries |-> IF e \in targets THEN @[e] \cup {tag_id} ELSE @[e]],
                    !.applied = [tag |-> tag_id, entries |-> targets]]

\* the callback of option opt (the lambdas of lines 682 and 684)
RunOption(th, opt) ==
    IF opt.multi THEN add_tag_and_record_multi(th, opt.tag, opt.targets)
    ELSE add_tag_and_record(th, opt.tag)

\* what get_recent_tags returns: a list, possibly with repeats, of the first
\* tag id (which the library may no longer hold) and the last one (which an
\* entry may already have)
RecentLists ==
    UNION { [1..n -> {1, NTags}] : n \in 0..MaxRecent }

\* the stored settings middle_click_apply_to_selected, _mod_ctrl, _mod_shift
ApplySettings == { <<TRUE, TRUE, FALSE>>, <<FALSE, TRUE, TRUE>> }

\* driver.selected after toggle_item_selection: the clicked entry alone when no
\* modifier is held; with a modifier the clicked entry left or joined the
\* selection, or every entry is selected
SelectedAfter(th, have_ctrl, have_shift) ==
    IF have_ctrl \/ have_shift
    THEN { th.selected \ {th.item_id}, th.selected \cup {th.item_id}, Entries }
    ELSE { {th.item_id} }

ThumbBecomes(th) ==
    /\ thumb' = th
    /\ UNCHANGED <<now, ov, active, last, badges, demo>>

\* a middle click on the thumb; while an overlay is open it covers the window
\* and the thumb gets no click
MiddleClick ==
    /\ thumb.clicks < MaxClicks
    /\ thumb.options = << >>
    /\ \/ \E selected_after \in SelectedAfter(thumb, FALSE, FALSE) :
            ThumbBecomes(eventFilter(thumb, FALSE, selected_after, FALSE, 1, << >>))
       \/ \E cfg \in ApplySettings, have_ctrl, have_shift \in BOOLEAN,
             limit \in 1..MaxLimit, recent \in RecentLists :
            \E selected_after \in SelectedAfter(thumb, have_ctrl, have_shift) :
                ThumbBecomes(eventFilter(thumb, TRUE, selected_after,
                    apply_to_selected(cfg[1], cfg[2], cfg[3], have_ctrl, have_shift),
                    limit, recent))

\* the grid shows another entry in this thumb (set_item_id)
SetItemId ==
    /\ \E e \in Entries \ {thumb.item_id} :
        ThumbBecomes([thumb EXCEPT !.item_id = e, !.applied = NoApplied])

\* the selection changes while the overlay is open: an entry joins or leaves it
SelectionChanges ==
    /\ thumb.options # << >>
    /\ \E e \in Entries :
        LET S == IF e \in thumb.selected THEN thumb.selected \ {e}
                 ELSE thumb.selected \cup {e}
        IN  ThumbBecomes([thumb EXCEPT !.selected = S, !.applied = NoApplied])

\* the overlay runs the callback of option k and closes
ClickOption ==
    /\ \E k \in 1..Len(thumb.options) :
        ThumbBecomes([RunOption(thumb, thumb.options[k])
                        EXCEPT !.options = << >>, !.opened = NoOpen])

\* the overlay closes with no option chosen
Dismiss ==
    /\ thumb.options # << >>
    /\ ThumbBecomes([thumb EXCEPT !.options = << >>, !.opened = NoOpen,
                                  !.applied = NoApplied])

\* ---------------------------------------------------- badge_update_lock
Thumbs == 1..NThumbs
BadgeTypes == {"FAVORITE", "ARCHIVED"}

\* the badges of every thumb as built by __init__, and the driver's lock
NewBadges ==
    [ lock         |-> FALSE,     \* self.driver.badge_update_lock
      checked      |-> [t \in Thumbs |-> [b \in BadgeTypes |-> FALSE]],  \* badge.isChecked()
      badge_active |-> [t \in Thumbs |-> [b \in BadgeTypes |-> FALSE]],
      \* the wrapped calls whose body is inside driver.update_badges, innermost last
      running      |-> << >>,
      \* what the last call of the wrapper did (observation)
      outcome      |-> "none" ]

\* the finally clause of the wrapper: the call whose body ends is the innermost
wrapper_finally(bs) ==
    [bs EXCEPT !.lock = FALSE, !.running = SubSeq(@, 1, Len(@) - 1)]

\* on_badge_check up to its call of driver.update_badges; mode is None while
\* assign_badge changes the check box
on_badge_check(bs, t, b, has_mode) ==
    IF ~has_mode THEN [wrapper_finally([bs EXCEPT !.running = Append(@, <<t, b>>)])
                            EXCEPT !.outcome = "returned"]
    ELSE [bs EXCEPT !.badge_active[t][b] = bs.checked[t][b],
                    !.running = Append(@, <<t, b>>),
                    !.outcome = "entered"]

\* mutant: the wrapper does not look at the lock
badge_update_lock_unguarded(bs, t, b, has_mode) ==
    on_badge_check([bs EXCEPT !.lock = TRUE], t, b, has_mode)

\* the wrapper, called by badge.stateChanged of thumb t
badge_update_lock(bs, t, b, has_mode) ==
    IF bs.lock THEN [bs EXCEPT !.outcome = "skipped"]
    ELSE on_badge_check([bs EXCEPT !.lock = TRUE], t, b, has_mode)

\* the mode is blanked around setChecked, which emits stateChanged
assign_badge(bs, t, b, value) ==
    LET b1 == [bs EXCEPT !.badge_active[t][b] = value]
    IN  IF bs.checked[t][b] # value
        THEN badge_update_lock([b1 EXCEPT !.checked[t][b] = value], t, b, FALSE)
        ELSE [b1 EXCEPT !.outcome = "none"]

BadgesBecome(bs) ==
    /\ badges' = bs
    /\ UNCHANGED <<now, ov, active, last, thumb, demo>>

\* a badge check box changes state with the thumb's mode set: the user clicks
\* it, or it changes while an earlier handler is inside driver.update_badges
BadgeToggled ==
    /\ Len(badges.running) < MaxDepth
    /\ \E t \in Thumbs, b \in BadgeTypes :
        BadgesBecome(badge_update_lock(
            [badges EXCEPT !.checked[t][b] = ~@], t, b, TRUE))

\* assign_badge is called, from driver.update_badges inside a running handler
\* or from elsewhere
AssignBadge ==
    /\ \E t \in Thumbs, b \in BadgeTypes, value \in BOOLEAN :
        BadgesBecome(assign_badge(badges, t, b, value))

\* driver.update_badges returns to the innermost running handler
BodyReturns ==
    /\ badges.running # << >>
    /\ BadgesBecome([wrapper_finally(badges) EXCEPT !.outcome = "returned"])

\* driver.update_badges raises in the innermost running handler; the wrapper
\* re-raises after its finally clause
BodyRaises ==
    /\ badges.running # << >>
    /\ BadgesBecome([wrapper_finally(badges) EXCEPT !.outcome = "raised"])

\* ------------------------------------------------------ MiddleClickDemo
\* the clock unit of the demo is 0.05 s
DemoInUnits == 9    \* anim_in_duration = 0.45
DemoOutUnits == 2   \* anim_out_duration = 0.1
DemoOptions == 4    \* len(self.options)
Margin == 12

RECURSIVE Pow(_, _)
Pow(a, n) == IF n = 0 THEN 1 ELSE a * Pow(a, n - 1)

\* progress is held as progress * DemoPScale: an entry value is a multiple of
\* 1 / DemoInUnits^3, and a reverse close divides by DemoOutUnits at most once
\* per clock unit
DemoPScale == Cube(DemoInUnits) * Pow(DemoOutUnits, DemoMaxTime - StartTime)

\* the widget as built by __init__, at size rw x rh; use_native_menu stays
\* False, auto_close_enabled True and auto_close_distance 200
NewDemo(rw, rh) ==
    [ rw                  |-> rw,
      rh                  |-> rh,
      center_circle       |-> NoPoint,
      anim_enabled        |-> TRUE,
      effects             |-> << >>,
      anim_timer          |-> FALSE,
      auto_close_distance |-> 200,
      hit_regions         |-> << >>,
      update_pending      |-> FALSE,    \* a paint event posted by update()
      op                  |-> "init" ]  \* the handler that ran last (observation)

\* lines 142-151; reverse_start = NoTime stands for the key being absent
NewDemoEffect(c, angle, t, text) ==
    [ center |-> c, angle |-> angle, text |-> text, start |-> t, progress |-> 0,
      radius |-> 18, target_w |-> 84, target_h |-> 36,
      reverse_start |-> NoTime, reverse_progress_start |-> 0 ]

\* self.effects.clear(); self._hit_regions.clear(); self.center_circle = None
DemoClear(d) ==
    [d EXCEPT !.effects = << >>, !.hit_regions = << >>, !.center_circle = NoPoint]

DemoUpdate(d) == [d EXCEPT !.update_pending = TRUE]

Demo_start_reverse_close(d, t) ==
    IF ~d.anim_enabled THEN DemoClear(d)
    ELSE [d EXCEPT !.effects = [k \in 1..Len(d.effects) |->
                        [d.effects[k] EXCEPT
                            !.reverse_start = t,
                            !.reverse_progress_start = d.effects[k].progress]],
                   !.anim_timer = TRUE]

\* the non-native branch of a middle-button press at p
Demo_mousePressEvent(d, button, p, t) ==
    IF button # "middle" THEN d
    ELSE LET count == Max(1, DemoOptions)
             baseline == atan2(d.rh \div 2 - p.y, d.rw \div 2 - p.x)
             angles == AnglesFor(count, baseline)
             effs == [k \in 1..DemoOptions |->
                        [NewDemoEffect(p, angles[k], t, k) EXCEPT
                            !.progress = IF d.anim_enabled THEN 0 ELSE DemoPScale]]
         IN  DemoUpdate([d EXCEPT !.center_circle = p,
                                  !.effects = effs,
                                  !.hit_regions = << >>,
                                  !.anim_timer = d.anim_timer \/ d.anim_enabled])

\* lines 181-187 for a release on an option and lines 191-197 for one on none
\* are the same statements
Demo_mouseReleaseEvent(d, button, p, t) ==
    IF button # "left" THEN d
    ELSE DemoUpdate(IF d.anim_enabled THEN Demo_start_reverse_close(d, t)
                    ELSE DemoClear(d))

Demo_mouseMoveEvent(d, p, t) ==
    IF /\ d.center_circle # NoPoint
       /\ TooFar(p.x - d.center_circle.x, p.y - d.center_circle.y, d.auto_close_distance)
       /\ d.effects # << >>
    THEN DemoUpdate(IF d.anim_enabled THEN Demo_start_reverse_close(d, t)
                    ELSE DemoClear(d))
    ELSE d

Demo_on_anim_tick(d) ==
    IF d.effects = << >> THEN [d EXCEPT !.anim_timer = FALSE]
    ELSE DemoUpdate(d)

Demo_set_anim_enabled(d, enabled) ==
    IF ~enabled
    THEN DemoUpdate([d EXCEPT !.anim_enabled = FALSE,
                              !.effects = [k \in 1..Len(d.effects) |->
                                    [d.effects[k] EXCEPT !.progress = DemoPScale]],
                              !.anim_timer = FALSE])
    ELSE [d EXCEPT !.anim_enabled = TRUE,
                   !.anim_timer = d.anim_timer \/ d.effects # << >>]

\* prog = 1 - pow(1 - t, 3) with t = min(1.0, elapsed / anim_in_duration)
DemoForward(elapsed) ==
    (Cube(DemoInUnits) - Cube(DemoInUnits - Min(DemoInUnits, elapsed)))
        * (DemoPScale \div Cube(DemoInUnits))

\* mutant: the reverse animation is eased with a cube
DemoReverse_eased(start_p, rev_elapsed) ==
    Max(0, (start_p * Cube(DemoOutUnits - Min(DemoOutUnits, rev_elapsed)))
                \div Cube(DemoOutUnits))

\* prog = max(0.0, start_p * (1.0 - frac)) with
\* frac = min(1.0, rev_elapsed / anim_out_duration)
DemoReverse(start_p, rev_elapsed) ==
    Max(0, (start_p * (DemoOutUnits - Min(DemoOutUnits, rev_elapsed))) \div DemoOutUnits)

\* the progress paintEvent gives effect e at time t
DemoProgress(d, e, t) ==
    IF e.reverse_start = NoTime
    THEN IF ~d.anim_enabled THEN DemoPScale ELSE DemoForward(t - e.start)
    ELSE IF d.anim_enabled THEN DemoReverse(e.reverse_progress_start, t - e.reverse_start)
         ELSE 0

\* whether effect e sets still_running in the paint at time t
DemoStillRunning(d, e, t) ==
    /\ d.anim_enabled
    /\ IF e.reverse_start = NoTime THEN DemoProgress(d, e, t) < DemoPScale
       ELSE DemoProgress(d, e, t) > 0

\* mutant: a rectangle off the bounds is flipped to the other side but not
\* clamped
Clamp_none(v, lo, hi) == v

\* min(max(lo, v), hi)
Clamp(v, lo, hi) == Min(Max(lo, v), hi)

\* lines 273-305 and 321: the rectangle recorded for effect e at progress prog
DemoRect(d, e, prog) ==
    LET rw == d.rw
        rh == d.rh
        max_radius == Max(80, Min(rw, rh) \div 4)
        base_dist == Min(max_radius, 120)
        den == TrigScale * DemoPScale
        cx == TruncAdd(e.center.x, Cos(e.angle) * base_dist * prog, den)
        cy == TruncAdd(e.center.y, Sin(e.angle) * base_dist * prog, den)
        w == Max(8, (e.target_w * (6 * DemoPScale + 4 * prog)) \div (10 * DemoPScale))
        h == Max(8, (e.target_h * (6 * DemoPScale + 4 * prog)) \div (10 * DemoPScale))
        x_test == cx - w \div 2
        y_test == cy - h \div 2
        out_of_bounds == \/ x_test < Margin \/ y_test < Margin
                         \/ x_test + w > rw - Margin \/ y_test + h > rh - Margin
        new_angle == e.angle + HalfTurn
        fx == TruncAdd(e.center.x, Cos(new_angle) * base_dist * prog, den)
        fy == TruncAdd(e.center.y, Sin(new_angle) * base_dist * prog, den)
        x_flip == Clamp(fx - w \div 2, Margin, rw - Margin - w)
        y_flip == Clamp(fy - h \div 2, Margin, rh - Margin - h)
    IN  IF out_of_bounds
        THEN Rect((x_flip + w \div 2) - w \div 2, (y_flip + h \div 2) - h \div 2, w, h)
        ELSE Rect(cx - w \div 2, cy - h \div 2, w, h)

Demo_paintEvent(d, t) ==
    LET n == Len(d.effects)
        effs == [k \in 1..n |->
                    [d.effects[k] EXCEPT !.progress = DemoProgress(d, d.effects[k], t)]]
        regions == [k \in 1..n |->
                    [rect |-> DemoRect(d, effs[k], effs[k].progress), idx |-> k - 1]]
        still_running == \E k \in 1..n : DemoStillRunning(d, d.effects[k], t)
        reversing == \E k \in 1..n : d.effects[k].reverse_start # NoTime
        painted == [d EXCEPT !.effects = effs,
                             !.hit_regions = regions,
                             !.update_pending = FALSE,
                             !.anim_timer = d.anim_timer /\ still_running]
    IN  IF ~still_running /\ reversing THEN DemoUpdate(DemoClear(painted))
        ELSE painted

\* the middle clicks land on the center of the widget, on its diagonals and
\* near its bottom and right edges
DemoPoints(d) ==
    LET cx == d.rw \div 2
        cy == d.rh \div 2
    IN  { Pt(cx, cy), Pt(cx - 220, cy - 220), Pt(cx + 220, cy + 220),
          Pt(cx, d.rh - 10), Pt(d.rw - 10, cy) }

\* the sizes of the widget: its minimum size and a larger one
DemoSizes == { <<640, 480>>, <<800, 600>> }

DemoBecomes(op, d) ==
    /\ demo' = [d EXCEPT !.op = op]
    /\ UNCHANGED <<now, ov, active, last, thumb, badges>>

DemoAdvance ==
    /\ now < DemoMaxTime
    /\ now' = now + 1
    /\ demo' = [demo EXCEPT !.op = "advance"]
    /\ UNCHANGED <<ov, active, last, thumb, badges>>

DemoPress ==
    /\ \E p \in DemoPoints(demo) :
        DemoBecomes("press", Demo_mousePressEvent(demo, "middle", p, now))

DemoRelease ==
    /\ \E button \in {"left", "right"} :
        DemoBecomes(IF button = "left" THEN "release" ELSE "other",
                    Demo_mouseReleaseEvent(demo, button, Pt(demo.rw \div 2, demo.rh \div 2), now))

\* the pointer moves to the click point or beyond the auto-close distance
DemoMove ==
    /\ demo.center_circle # NoPoint
    /\ \E dx \in {0, -201} :
        DemoBecomes("move",
            Demo_mouseMoveEvent(demo, Pt(demo.center_circle.x + dx, demo.center_circle.y), now))

DemoTick ==
    /\ demo.anim_timer
    /\ DemoBecomes("tick", Demo_on_anim_tick(demo))

DemoPaint ==
    /\ DemoBecomes("paint", Demo_paintEvent(demo, now))

\* the "Enable animation" check box changes state
DemoSetAnim ==
    /\ DemoBecomes("anim", Demo_set_anim_enabled(demo, ~demo.anim_enabled))

\* ------------------------------------------------------ specifications
InitLast ==
    [op |-> "init", inst |-> None, arg |-> 0, cb |-> 0, pre |-> None,
     raised |-> FALSE, escaped |-> FALSE]

\* the overlays in I are built by one host from the same stored settings, one
\* of SS, each with a number of options in NN; the others are never used
InitWith(I, SS, NN) ==
    /\ now = StartTime
    /\ active = None
    /\ last = InitLast
    /\ thumb = NewThumb(1, Tags, [e \in Entries |-> {}])
    /\ badges = NewBadges
    /\ demo = NewDemo(GeoW, GeoH)
    /\ \E s \in SS : \E n \in [Instances -> NN] :
        /\ \A i \in Instances \ I : n[i] = 0
        /\ ov = [i \in Instances |->
                    NewOverlay(n[i], s.in_enabled, s.in_dur, s.out_enabled, s.out_dur)]

Step(I, until) ==
    \/ Advance(until)
    \/ \E i \in I : ShowAt(i)
    \/ \E i \in I : Tick(i)
    \/ \E i \in I : Paint(i)
    \/ \E i \in I : Release(i)
    \/ \E i \in I : LeaveCheck(i)
    \/ \E i \in I : Close(i)

\* Spec: every instance is in use, each with one option; the durations are one
\* clock unit; the releases are of every mouse button
Init == InitWith(Instances, { s \in Settings : s.in_dur = 1 /\ s.out_dur = 1 }, {1})
Next ==
    \/ Step(Instances, CoordMaxTime)
    \/ \E i \in Instances : ReleaseOther(i)
Spec == Init /\ [][Next]_vars

\* SpecOne: one overlay, under every setting and every number of options
InitOne == InitWith({1}, Settings, 0..MaxOpts)
NextOne == Step({1}, MaxTime)
SpecOne == InitOne /\ [][NextOne]_vars

\* FairOne: one overlay with no option or one, under every setting, where the
\* event loop delivers the timeout of a running animation timer and the paint
\* event update() posted
InitFair == InitWith({1}, Settings, {0, 1})
NextFair == Step({1}, FairMaxTime)
FairOne ==
    /\ InitFair /\ [][NextFair]_vars
    /\ WF_vars(Tick(1))
    /\ WF_vars(ov[1].update_pending /\ Paint(1))

\* ThumbSpec: one ItemThumb, the driver's selection and the library; the
\* entries start untagged or with the last tag, and the first tag may be gone
\* from the library
InitThumb ==
    /\ now = StartTime
    /\ active = None
    /\ last = InitLast
    /\ ov = [i \in Instances |-> NewOverlay(0, TRUE, 1, TRUE, 1)]
    /\ \E item \in Entries, lib_tags \in {Tags, Tags \ {1}},
          start_tags \in {{}, {NTags}} :
        thumb = NewThumb(item, lib_tags, [e \in Entries |-> start_tags])
    /\ badges = NewBadges
    /\ demo = NewDemo(GeoW, GeoH)
NextThumb ==
    \/ MiddleClick
    \/ SetItemId
    \/ SelectionChanges
    \/ ClickOption
    \/ Dismiss
ThumbSpec == InitThumb /\ [][NextThumb]_vars

\* BadgeSpec: the badge check boxes of the thumbs of one driver
InitBadge ==
    InitWith({1}, { s \in Settings : /\ s.in_dur = 1 /\ s.out_dur = 1
                                     /\ s.in_enabled /\ s.out_enabled }, {0})
NextBadge ==
    \/ BadgeToggled
    \/ AssignBadge
    \/ BodyReturns
    \/ BodyRaises
BadgeSpec == InitBadge /\ [][NextBadge]_vars

\* DemoSpec: the demo widget at either size
InitDemo ==
    /\ now = StartTime
    /\ active = None
    /\ last = InitLast
    /\ ov = [i \in Instances |-> NewOverlay(0, TRUE, 1, TRUE, 1)]
    /\ thumb = NewThumb(1, Tags, [e \in Entries |-> {}])
    /\ badges = NewBadges
    /\ \E sz \in DemoSizes : demo = NewDemo(sz[1], sz[2])
NextDemo ==
    \/ DemoAdvance
    \/ DemoPress
    \/ DemoRelease
    \/ DemoMove
    \/ DemoTick
    \/ DemoPaint
    \/ DemoSetAnim
DemoSpec == InitDemo /\ [][NextDemo]_vars

\* ================================================================ claims
BothAnimated(o) == o.anim_enabled /\ o.anim_out_enabled

\* C1: at most one overlay is shown at a time and the shown one is the active
\* instance; show_at on b while another instance a is active closes a in the
\* same step (a is hidden, its effects are gone, its closing flag is not
\* raised) and leaves the active reference on b.
AtMostOneShown ==
    /\ Cardinality({ i \in Instances : ov[i].visible }) <= 1
    /\ \A i \in Instances : ov[i].visible => active = i
PreemptsAtOnce ==
    \A a, b \in Instances :
        (a # b /\ active = a /\ last'.op = "show" /\ last'.inst = b) =>
            /\ ~ov'[a].visible
            /\ ov'[a].effects = << >>
            /\ ov'[a].closing = ov[a].closing
            /\ ~ov'[a].anim_timer /\ ~ov'[a].leave_timer
            /\ active' = b
            /\ ov'[b].visible
C1_SingleInstance == [] AtMostOneShown /\ [][PreemptsAtOnce]_vars
C1_Witness ==
    /\ last.op = "show" /\ last.pre # None
    /\ active = last.inst
    /\ ~ov[last.pre].visible /\ ~ov[last.pre].closing

\* C2: between a show_at and the close that ends that lifetime, at most one
\* option callback is run.
C2_AtMostOneCallback == \A i \in Instances : Len(ov[i].invoked) <= 1
C2_Witness ==
    \E i \in Instances :
        last.op = "release" /\ last.inst = i /\ last.cb # 0 /\ Len(ov[i].invoked) = 1

\* C3: a left release at a point in none of the recorded hit rectangles runs no
\* callback and requests close: with entry and exit animation enabled the
\* overlay is in the closing state, otherwise it is closed in the same step.
C3_ClickAway ==
    \A i \in Instances :
        (last.op = "release" /\ last.inst = i /\ last.arg = -1) =>
            /\ last.cb = 0
            /\ IF BothAnimated(ov[i])
               THEN ov[i].closing /\ ov[i].visible
               ELSE ~ov[i].visible /\ ~ov[i].closing
C3_Witness ==
    \E i \in Instances :
        /\ last.op = "release" /\ last.inst = i /\ last.arg = -1
        /\ ov[i].closing /\ ov[i].visible /\ ov[i].closing_start = now
        /\ Len(ov[i].hit_regions) > 0

\* C4: an overlay shown with no options has no effects and no hit rectangles,
\* and after a left release on it the overlay is eventually closed (at the
\* latest when the host shows it anew).
C4_EmptyOverlayCloses ==
    /\ [] (\A i \in Instances :
            Len(ov[i].options) = 0 =>
                Len(ov[i].effects) = 0 /\ Len(ov[i].hit_regions) = 0)
    /\ (last.op = "release" /\ last.inst = 1 /\ Len(ov[1].options) = 0)
            ~> (~ov[1].visible \/ last.op = "show")

\* C5: a shown, closing overlay with at least one effect whose exit duration
\* has elapsed is eventually closed with its animation timer stopped; and the
\* animation timer of an overlay that is not shown is never running.
ExitElapsed(i) ==
    /\ ov[i].visible /\ ov[i].closing /\ Len(ov[i].effects) > 0
    /\ now - ov[i].closing_start >= ov[i].anim_out_duration
C5_ClosingEnds ==
    /\ ExitElapsed(1) ~> (~ov[1].visible /\ ~ov[1].anim_timer)
    /\ [] (\A i \in Instances : ~ov[i].visible => ~ov[i].anim_timer)
C5_Witness == ExitElapsed(1) /\ last.op = "advance"

\* C6: while an overlay is closing, no paint raises the progress of an effect.
ClosingPaintDecays ==
    \A i \in Instances :
        (ov[i].closing /\ last'.op = "paint" /\ last'.inst = i
            /\ Len(ov'[i].effects) = Len(ov[i].effects)) =>
            \A k \in 1..Len(ov[i].effects) :
                ov'[i].effects[k].progress <= ov[i].effects[k].progress
C6_ClosingDecays == [][ClosingPaintDecays]_vars

\* C7 (as amended): a left release inside an option's hit rectangle runs that
\* option's callback, and no other, and closes the overlay in the same step
\* under every animation setting: it is hidden, its effects and hit regions
\* are cleared, both timers are stopped and its closing flag is not touched.
HitCloses ==
    \A i \in Instances :
        (last'.op = "release" /\ last'.inst = i /\ last'.arg >= 0) =>
            /\ last'.cb = ov[i].options[last'.arg + 1]
            /\ ov'[i].invoked = Append(ov[i].invoked, last'.cb)
            /\ ~ov'[i].visible
            /\ ov'[i].closing = ov[i].closing
            /\ ov'[i].effects = << >> /\ ov'[i].hit_regions = << >>
            /\ ~ov'[i].anim_timer /\ ~ov'[i].leave_timer
HitAnimatesOut ==
    \A i \in Instances :
        (last'.op = "release" /\ last'.inst = i /\ last'.arg >= 0 /\ BothAnimated(ov[i])) =>
            last'.cb # 0 /\ ov'[i].closing /\ ov'[i].visible
EnteringPaintRises ==
    \A i \in Instances :
        (last'.op = "paint" /\ last'.inst = i /\ ov[i].anim_enabled /\ ~ov[i].closing) =>
            /\ Len(ov'[i].effects) = Len(ov[i].effects)
            /\ \A k \in 1..Len(ov[i].effects) :
                /\ ov'[i].effects[k].progress >= ov[i].effects[k].progress
                /\ (now - ov[i].effects[k].start >= ov[i].anim_in_duration
                        => ov'[i].effects[k].progress = PScale)
C8_EnteringMonotone == [][EnteringPaintRises]_vars
C8_Witness ==
    \E i \in Instances :
        /\ last.op = "paint" /\ last.inst = i /\ ov[i].anim_enabled /\ ~ov[i].closing
        /\ \E k \in 1..Len(ov[i].effects) :
            0 < ov[i].effects[k].progress /\ ov[i].effects[k].progress < PScale

\* C9: every effect's progress is within [0, 1].
C9_ProgressInRange ==
    \A i \in Instances : \A k \in 1..Len(ov[i].effects) :
        0 <= ov[i].effects[k].progress /\ ov[i].effects[k].progress <= PScale
C9_Witness ==
    \E i \in Instances :
        /\ ov[i].closing /\ last.op = "paint"
        /\ \E k \in 1..Len(ov[i].effects) :
            0 < ov[i].effects[k].progress /\ ov[i].effects[k].progress < PScale

\* C10: a leave check with the cursor at squared distance above
\* leave_distance squared (distance > 220) requests close: an overlay not yet
\* closing enters the closing state now when both animations are enabled and
\* is closed otherwise; at any distance up to 220 nothing changes.
LeaveStep(i, d) ==
    LET cur == Pt(ov[i].center_global.x + d.x, ov[i].center_global.y + d.y)
        after == on_leave_check(State, i, cur, now)
    IN  /\ ov[i].leave_timer
        /\ last'.op = "leave" /\ last'.inst = i
        /\ ov' = after.ov /\ active' = after.active
LeaveThreshold ==
    \A i \in Instances : \A d \in CursorOffsets :
        LeaveStep(i, d) =>
            IF d.x * d.x + d.y * d.y > 220 * 220
            THEN IF ov[i].closing THEN UNCHANGED <<ov, active>>
                 ELSE IF BothAnimated(ov[i])
                      THEN ov'[i].closing /\ ov'[i].closing_start = now /\ ov'[i].visible
                      ELSE ~ov'[i].visible
            ELSE UNCHANGED <<ov, active>>
C10_LeaveThreshold == [][LeaveThreshold]_vars
C10_Witness ==
    \E i \in Instances :
        /\ last.op = "leave" /\ last.inst = i
        /\ ~ov[i].visible /\ ~ov[i].closing /\ ov[i].center_global # NoPoint

\* C11: with anim_enabled false, every effect of the overlay has progress
\* exactly 1 from the moment show_at returns, through every later paint, until
\* a close removes the effects; the animation timer is never running and the
\* overlay never enters the closing state.
C11_NoEntryAnimation ==
    \A i \in Instances :
        ~ov[i].anim_enabled =>
            /\ ~ov[i].anim_timer
            /\ ~ov[i].closing
            /\ \A k \in 1..Len(ov[i].effects) : ov[i].effects[k].progress = PScale
            /\ (last.op = "show" /\ last.inst = i =>
                    Len(ov[i].effects) = Len(ov[i].options))
C11_Witness ==
    \E i \in Instances :
        /\ ~ov[i].anim_enabled /\ ov[i].visible
        /\ last.op = "paint" /\ last.inst = i /\ now > StartTime
        /\ Len(ov[i].effects) >= 2 /\ Len(ov[i].hit_regions) = Len(ov[i].effects)
        /\ \A k \in 1..Len(ov[i].effects) : ov[i].effects[k].progress = PScale

\* C12: on an overlay that is already closing, a close request (a left release
\* on no option, or a leave check at any cursor position) changes nothing: the
\* closing flag, the closing start time, the effects, the hit regions, both
\* timers and the active reference are as before.
RepeatedRequestIsNoOp ==
    \A i \in Instances :
        (ov[i].closing /\ last'.inst = i
            /\ (last'.op = "leave" \/ (last'.op = "release" /\ last'.arg = -1))) =>
            UNCHANGED <<ov, active>>
C12_RepeatedCloseRequest == [][RepeatedRequestIsNoOp]_vars
C12_Witness ==
    \E i \in Instances :
        /\ last.op = "release" /\ last.inst = i /\ last.arg = -1
        /\ ov[i].visible /\ ov[i].closing /\ ov[i].anim_timer
        /\ ov[i].closing_start < now /\ Len(ov[i].effects) > 0

\* C13: a close request (a left release on no option, or a leave check beyond
\* the threshold) on an overlay whose anim_out_enabled or anim_enabled is false
\* closes it in the same step: it is hidden, its effects are cleared and its
\* timers stopped; such an overlay never has its closing flag set, so no paint
\* ever draws an exit frame for it.
CloseRequestStep(i) ==
    \/ /\ ov[i].visible /\ last'.op = "release" /\ last'.inst = i /\ last'.arg = -1
    \/ \E d \in CursorOffsets :
        /\ TooFar(d.x, d.y, ov[i].leave_distance)
        /\ LeaveStep(i, d)
ClosesWithoutExit ==
    \A i \in Instances :
        (~BothAnimated(ov[i]) /\ CloseRequestStep(i)) =>
            /\ ~ov'[i].visible /\ ~ov'[i].closing
            /\ ov'[i].effects = << >> /\ ov'[i].hit_regions = << >>
            /\ ~ov'[i].anim_timer /\ ~ov'[i].leave_timer
            /\ ov'[i].closing_start = NoTime
C13_ImmediateClose ==
    /\ [] (\A i \in Instances : ~BothAnimated(ov[i]) => ~ov[i].closing)
    /\ [][ClosesWithoutExit]_vars
C13_Witness ==
    \E i \in Instances :
        /\ last.op = "release" /\ last.inst = i /\ last.arg = -1
        /\ ov[i].anim_enabled /\ ~ov[i].anim_out_enabled
        /\ Len(ov[i].options) > 0
        /\ ~ov[i].visible /\ ~ov[i].closing /\ ov[i].effects = << >>

\* C14: when the callback of the clicked option raises, the exception does not
\* leave mouseReleaseEvent and the overlay is left exactly as when the callback
\* returns: hidden, no effects, no hit regions, both timers stopped, no longer
\* the active instance, the callback counted once.
RaisingCallbackCloses ==
    \A i \in Instances :
        (last'.op = "release" /\ last'.inst = i /\ last'.raised) =>
            /\ ~last'.escaped
            /\ last'.cb = ov[i].options[last'.arg + 1]
            /\ ov'[i] = close([State EXCEPT !.ov[i].invoked = Append(@, last'.cb)], i).ov[i]
            /\ ~ov'[i].visible /\ ov'[i].effects = << >> /\ ov'[i].hit_regions = << >>
            /\ ~ov'[i].anim_timer /\ ~ov'[i].leave_timer
            /\ active' # i
C14_CallbackFailure == [][RaisingCallbackCloses]_vars
C14_Witness ==
    \E i \in Instances :
        /\ last.op = "release" /\ last.inst = i /\ last.raised /\ last.cb # 0
        /\ ~ov[i].visible /\ active = None

\* C15: when the released point lies in the hit rectangles of several options,
\* the callback run is that of the option painted last among them (the highest
\* index), and no other callback is run.
ReleaseStep(i, d) ==
    LET p == Pt(ov[i].center.x + d.x, ov[i].center.y + d.y)
    IN  /\ ov[i].visible
        /\ last'.op = "release" /\ last'.inst = i
        /\ last'.arg = ClickedIdx(ov[i], p)
        /\ \E raises \in BOOLEAN :
            LET after == mouseReleaseEvent(State, i, "left", p, now, raises)
            IN  ov' = after.ov /\ active' = after.active
LastPainted(o, p) ==
    CHOOSE k \in Hits(o, p) : \A m \in Hits(o, p) : o.hit_regions[m].idx <= o.hit_regions[k].idx
LastPaintedWins ==
    \A i \in Instances : \A d \in ReleaseOffsets :
        LET p == Pt(ov[i].center.x + d.x, ov[i].center.y + d.y)
        IN  (ReleaseStep(i, d) /\ Cardinality(Hits(ov[i], p)) >= 2) =>
                /\ last'.cb = ov[i].options[ov[i].hit_regions[LastPainted(ov[i], p)].idx + 1]
                /\ Len(ov'[i].invoked) = Len(ov[i].invoked) + 1
C15_LastPaintedWins == [][LastPaintedWins]_vars

\* C16: when show_at returns the overlay has exactly one effect per option, in
\* option order; with N >= 2 options the angle of effect number k (from 0) is
\* baseline - pi/2 + pi * k / (N - 1), where baseline is the direction from the
\* click point to the middle of the window, so the angles are evenly spaced,
\* span exactly pi and are centered on the baseline; with one option the angle
\* is the baseline.  The angles stay so for as long as the effects exist.
Baseline(o) == atan2(GeoH \div 2 - o.center.y, GeoW \div 2 - o.center.x)
AnglesSpread(o) ==
    LET n == Len(o.effects)
    IN  /\ n = Len(o.options)
        /\ \A k \in 1..n : o.effects[k].text = o.options[k]
        /\ n = 1 => o.effects[1].angle = Baseline(o)
        /\ n >= 2 =>
            /\ \A k \in 1..n :
                    (n - 1) * o.effects[k].angle =
                        (n - 1) * (Baseline(o) - QuarterTurn) + HalfTurn * (k - 1)
            /\ o.effects[n].angle - o.effects[1].angle = HalfTurn
            /\ o.effects[n].angle + o.effects[1].angle = 2 * Baseline(o)
C16_AnglesEvenlySpread ==
    \A i \in Instances :
        /\ (last.op = "show" /\ last.inst = i) => Len(ov[i].effects) = Len(ov[i].options)
        /\ Len(ov[i].effects) > 0 => AnglesSpread(ov[i])
C16_Witness ==
    \E i \in Instances :
        /\ last.op = "show" /\ last.inst = i
        /\ Len(ov[i].effects) = 3 /\ Baseline(ov[i]) = QuarterTurn
        /\ ov[i].effects[2].angle = QuarterTurn

\* C17: every rectangle the overlay records for hit-testing lies inside the
\* overlay's bounds minus the margin (the bounds, 640 x 480, are large enough
\* to hold a 100 x 36 rectangle with the margin on every side).
InsideBounds(r) ==
    /\ r.x >= Margin /\ r.y >= Margin
    /\ r.x + r.w <= GeoW - Margin
    /\ r.y + r.h <= GeoH - Margin
C17_HitRectsInsideBounds ==
    \A i \in Instances : \A k \in 1..Len(ov[i].hit_regions) :
        InsideBounds(ov[i].hit_regions[k].rect)

\* C18: closing an instance that is not the registered active instance (one a
\* newer overlay has superseded, or one already closed) leaves the active
\* reference as it is; the reference is cleared only by a handler of the
\* instance that is registered, when that handler closes it.
ActiveClearedByOwner ==
    /\ \A i \in Instances :
            (last'.op = "close" /\ last'.inst = i) =>
                /\ active' = (IF active = i THEN None ELSE active)
                /\ ~ov'[i].visible /\ ov'[i].effects = << >>
    /\ (active # None /\ active' = None) =>
            /\ last'.inst = active /\ last'.op # "show"
            /\ ~ov'[active].visible
C18_ActiveClearedByOwner == [][ActiveClearedByOwner]_vars
C18_Witness ==
    \E i, j \in Instances :
        /\ i # j /\ last.op = "close" /\ last.inst = i
        /\ active = j /\ ov[j].visible /\ Len(ov[j].effects) > 0
        /\ ov[i].center # NoPoint /\ ~ov[i].visible

\* C19: the callback of an option built by on_middle_click adds that option's
\* tag to exactly the entries targeted when the overlay was opened (the clicked
\* entry, or the selection as it was then when the tag applies to the
\* selection), and to no other entry, whatever became of the thumb's item_id
\* and of the selection in between.
TargetedWhenOpened(th) ==
    IF th.opened.apply THEN th.opened.selected ELSE {th.opened.item_id}
CallbackHitsOpenedTargets ==
    (thumb.options # << >> /\ thumb'.applied # NoApplied) =>
        /\ \E k \in 1..Len(thumb.options) : thumb.options[k].tag = thumb'.applied.tag
        /\ thumb'.applied.entries = TargetedWhenOpened(thumb)
        /\ \A e \in Entries :
            thumb'.tags[e] = IF e \in TargetedWhenOpened(thumb)
                             THEN thumb.tags[e] \cup {thumb'.applied.tag}
                             ELSE thumb.tags[e]
C19_CallbackTargets == [][CallbackHitsOpenedTargets]_vars

AllSettled(o) == \A k \in 1..Len(o.effects) : o.effects[k].progress = PScale
TimerSelfStops ==
    \A i \in Instances :
        /\ (last'.op = "paint" /\ last'.inst = i /\ ov[i].anim_enabled /\ ~ov[i].closing
                /\ AllSettled(ov'[i])) => ~ov'[i].anim_timer
        /\ (last'.op = "tick" /\ last'.inst = i /\ ov[i].effects = << >>) =>
                ~ov'[i].anim_timer
        /\ (~ov[i].anim_timer /\ ov'[i].anim_timer) =>
                \/ last'.op = "show" /\ last'.inst = i
                \/ /\ last'.op \in {"release", "leave"} /\ last'.inst = i
                   /\ ~ov[i].closing /\ ov'[i].closing /\ ov'[i].closing_start = now
C21_TimerSelfStops ==
    /\ [][TimerSelfStops]_vars
    /\ (ov[1].anim_timer /\ ov[1].effects = << >>) ~> ~ov[1].anim_timer
C21_Witness ==
    \E i \in Instances :
        /\ last.op = "paint" /\ last.inst = i /\ now > StartTime
        /\ ov[i].anim_enabled /\ ~ov[i].closing /\ ov[i].visible
        /\ Len(ov[i].effects) > 0 /\ AllSettled(ov[i]) /\ ~ov[i].anim_timer

\* C22: a release of a button other than the left one on the shown overlay runs
\* no callback and starts no close: the closing flag, the effects, the hit
\* regions, the timers and the active reference are as before.
OtherButtonIgnored ==
    \A i \in Instances :
        (last'.op = "other" /\ last'.inst = i) =>
            /\ last'.cb = 0
            /\ UNCHANGED <<ov, active>>
C22_OtherButtonIgnored == [][OtherButtonIgnored]_vars
C22_Witness ==
    \E i \in Instances :
        /\ last.op = "other" /\ last.inst = i /\ last.arg >= 0
        /\ ov[i].visible /\ ~ov[i].closing /\ active = i
        /\ Len(ov[i].hit_regions) > 0 /\ ov[i].leave_timer

\* C28: once an overlay is closing, a later left-button release on it during
\* the exit animation runs no option callback.
NoCallbackWhileClosing ==
    \A i \in Instances :
        (last'.op = "release" /\ last'.inst = i /\ ov[i].visible /\ ov[i].closing) =>
            last'.cb = 0
C28_NoCallbackWhileClosing == [][NoCallbackWhileClosing]_vars

\* C29: the exit setting alone governs the exit animation: a close request on a
\* shown overlay built with the entry animation disabled and the exit animation
\* enabled sets the closing flag and keeps the overlay shown with its animation
\* timer running, instead of closing it at once.
ExitSettingAlone ==
    \A i \in Instances :
        (/\ ~ov[i].anim_enabled /\ ov[i].anim_out_enabled
         /\ ov[i].visible /\ ~ov[i].closing
         /\ CloseRequestStep(i)) =>
            /\ ov'[i].closing /\ ov'[i].closing_start = now
            /\ ov'[i].visible /\ ov'[i].anim_timer
C29_ExitSettingAlone == [][ExitSettingAlone]_vars

\* C30: an overlay that is not shown, whichever way it was closed (option
\* click, end of the exit animation, immediate close, another overlay's
\* show_at), has no effects and no hit regions, and neither its animation timer
\* nor its leave-check timer runs, so no point hits an option of it.
ClosedIsInert(o) ==
    /\ o.effects = << >> /\ o.hit_regions = << >>
    /\ ~o.anim_timer /\ ~o.leave_timer /\ ~o.update_pending
    /\ \A d \in ReleaseOffsets : ClickedIdx(o, Pt(o.center.x + d.x, o.center.y + d.y)) = -1
C30_ClosedIsInert == \A i \in Instances : ~ov[i].visible => ClosedIsInert(ov[i])
C30_Witness ==
    /\ last.op = "show" /\ last.pre # None /\ last.pre # last.inst
    /\ ~ov[last.pre].visible /\ ov[last.pre].center # NoPoint
    /\ ov[last.inst].visible /\ Len(ov[last.inst].effects) > 0

\* C27: with the feature disabled, a middle press on the thumb button is
\* reported as not handled, no overlay is created or shown and the selection
\* is as before.
MiddlePress == thumb'.clicks = thumb.clicks + 1
DisabledIsUntouched ==
    (MiddlePress /\ ~thumb'.handled) =>
        /\ thumb'.selected = thumb.selected
        /\ thumb'.options = << >> /\ thumb'.opened = NoOpen
        /\ thumb'.tags = thumb.tags
        /\ UNCHANGED <<ov, active>>
C27_DisabledIsUntouched ==
    /\ [][DisabledIsUntouched]_vars
    /\ [][(MiddlePress /\ thumb'.handled) => thumb'.opened # NoOpen]_vars
C27_Witness == thumb.clicks > 0 /\ ~thumb.handled /\ thumb.options = << >>

\* C26: a wrapped handler never runs inside another one: at most one body is
\* running, the lock is set exactly while one is, a call made meanwhile is
\* skipped and leaves the lock set, and when the body ends, by returning or by
\* raising, the lock is clear, so the next toggle runs its body.
NoReentry ==
    /\ Len(badges.running) <= 1
    /\ badges.lock <=> badges.running # << >>
    /\ badges.outcome = "skipped" => badges.lock /\ badges.running # << >>
    /\ badges.outcome \in {"returned", "raised"} => ~badges.lock
IdleToggleRuns ==
    (badges.running = << >> /\ badges'.checked # badges.checked) =>
        /\ badges'.outcome \in {"entered", "returned"}
        /\ badges'.outcome = "entered" => badges'.lock /\ Len(badges'.running) = 1
C26_NoReentry == []NoReentry /\ [][IdleToggleRuns]_vars
C26_Witness ==
    /\ badges.outcome = "raised" /\ ~badges.lock /\ badges.running = << >>
    /\ \E t \in Thumbs, b \in BadgeTypes : badges.checked[t][b] # badges.badge_active[t][b]

\* C25: in the demo widget, at its minimum size or larger, every rectangle a
\* paint records in _hit_regions lies inside the widget inset by the margin of
\* 12 pixels.
DemoInside(d, r) ==
    /\ r.x >= Margin /\ r.y >= Margin
    /\ r.x + r.w <= d.rw - Margin
    /\ r.y + r.h <= d.rh - Margin
C25_DemoRectsInsideBounds ==
    \A k \in 1..Len(demo.hit_regions) : DemoInside(demo, demo.hit_regions[k].rect)
C25_Witness ==
    /\ demo.op = "paint" /\ demo.rw = 640 /\ demo.rh = 480
    /\ Len(demo.hit_regions) = DemoOptions
    /\ \E k \in 1..Len(demo.hit_regions) :
        LET r == demo.hit_regions[k].rect
        IN  /\ demo.effects[k].progress = DemoPScale
            /\ \/ r.x = Margin \/ r.x + r.w = demo.rw - Margin
               \/ r.y = Margin \/ r.y + r.h = demo.rh - Margin

\* C24: in the demo widget, with animation enabled, a left release or a mouse
\* move that arrives while the effects are already reversing leaves every
\* effect's reverse_start and reverse_progress_start as they were.
DemoReversing(d) ==
    /\ d.effects # << >>
    /\ \A k \in 1..Len(d.effects) : d.effects[k].reverse_start # NoTime
RepeatedCloseKeepsStart ==
    (demo'.op \in {"release", "move"} /\ demo.anim_enabled /\ DemoReversing(demo)) =>
        /\ Len(demo'.effects) = Len(demo.effects)
        /\ \A k \in 1..Len(demo.effects) :
            /\ demo'.effects[k].reverse_start = demo.effects[k].reverse_start
            /\ demo'.effects[k].reverse_progress_start =
                    demo.effects[k].reverse_progress_start
C24_RepeatedCloseKeepsStart == [][RepeatedCloseKeepsStart]_vars

\* C23: in the demo widget, a reverse close started with animation enabled
\* stores the time and each effect's progress; each later paint with animation
\* enabled gives the effect the stored progress scaled linearly by the part of
\* anim_out_duration still to run, never more than the stored value; the
\* paint at which every effect is at 0 clears the effects, the hit regions and
\* the center circle and stops the animation timer.
DemoCaptures ==
    (/\ demo'.op \in {"release", "move"} /\ demo.anim_enabled
     /\ demo.effects # << >> /\ ~DemoReversing(demo) /\ DemoReversing(demo')) =>
        \A k \in 1..Len(demo.effects) :
            /\ demo'.effects[k].reverse_start = now
            /\ demo'.effects[k].reverse_progress_start = demo.effects[k].progress
            /\ demo'.effects[k].progress = demo.effects[k].progress
DemoLeft(e) == DemoOutUnits - Min(DemoOutUnits, now - e.reverse_start)
DemoDecays ==
    (demo'.op = "paint" /\ demo.anim_enabled /\ DemoReversing(demo)) =>
        IF \A k \in 1..Len(demo.effects) :
                demo.effects[k].reverse_progress_start * DemoLeft(demo.effects[k]) = 0
        THEN /\ demo'.effects = << >> /\ demo'.hit_regions = << >>
             /\ demo'.center_circle = NoPoint /\ ~demo'.anim_timer
        ELSE /\ Len(demo'.effects) = Len(demo.effects)
             /\ demo'.center_circle = demo.center_circle
             /\ \A k \in 1..Len(demo.effects) :
                 LET e == demo.effects[k]
                     f == demo'.effects[k]
                 IN  /\ f.progress * DemoOutUnits = e.reverse_progress_start * DemoLeft(e)
                     /\ f.progress <= e.reverse_progress_start
                     /\ f.reverse_start = e.reverse_start
                     /\ f.reverse_progress_start = e.reverse_progress_start
C23_DemoLinearDecay == [][DemoCaptures /\ DemoDecays]_vars
C23_Witness ==
    /\ demo.op = "paint" /\ demo.anim_enabled /\ DemoReversing(demo) /\ demo.anim_timer
    /\ \A k \in 1..Len(demo.effects) :
        /\ demo.effects[k].reverse_start < now
        /\ 0 < demo.effects[k].progress
        /\ demo.effects[k].progress < demo.effects[k].reverse_progress_start
        /\ demo.effects[k].reverse_progress_start < DemoPScale
====
